---- MODULE Spec2Model ----
(***************************************************************************)
(* The flashcard generator: main() builds a FlashcardGenerator (load the   *)
(* PDF, split it into chunks, build the map and reduce chains and the      *)
(* MapReduceGraph), runs the graph over the chunk contents and saves the   *)
(* result.  The graph fans a map call out per chunk, collects the          *)
(* summaries, collapses them while their token length exceeds TOKEN_MAX,   *)
(* and calls the reduce chain.                                             *)
(*                                                                         *)
(* A text (summary, collapsed document) is modelled by its token count,    *)
(* which is all that length_function, split_list_of_docs and               *)
(* _should_collapse read of it.                                            *)
(***************************************************************************)
EXTENDS Integers, Sequences, FiniteSets

VARIABLES
    pc,                  \* where the run is (see PcValues)
    file_path,           \* "readable" or "unreadable": the --input path
    graph_built,         \* MapReduceGraph(...).build() has run
    contents,            \* OverallState.contents: the chunk ids, in order
    pending,             \* chunks whose generate_summary task is outstanding
    summaries,           \* OverallState.summaries: token counts
    collapsed_summaries, \* OverallState.collapsed_summaries: token counts
    doc_lists,           \* _collapse_summaries: the groups of the current pass
    results,             \* _collapse_summaries: collapsed documents so far
    final_summary,       \* OverallState.final_summary
    supersteps,          \* graph supersteps executed by ainvoke
    calls,               \* map calls of the fan-out, collapse passes begun, reduce
                         \* calls, the node whose model call raised, and what the
                         \* reduce model answered ("json" or "not_json")
    reduce_input,        \* what reduce_chain.ainvoke was given
    raised,              \* the exception that reached main(), or NoError
    exit_status,         \* the process's exit status, -1 while running
    outputs              \* the --output file, and what main() printed

vars == <<pc, file_path, graph_built, contents, pending, summaries,
          collapsed_summaries, doc_lists, results, final_summary, supersteps,
          calls, reduce_input, raised, exit_status, outputs>>

(***************************************************************************)
(* Constants of the program and bounds of the model.                       *)
(***************************************************************************)
TOKEN_MAX == 100000

\* ainvoke is called without a config: the graph runs under the default
\* recursion limit of the graph library, in supersteps.
RecursionLimit == 25

\* The model's bound on the number of chunks load_and_split returns.
MaxChunks == 3

\* The token counts a model output can have: two that fit together under
\* TOKEN_MAX (twice 40000), two that add up to it exactly (40000 + 60000),
\* two that fit alone but not together (twice 60000), one that does not fit.
TokenLens == {40000, 60000, TOKEN_MAX + 1}

NoError == [type |-> "none", step |-> "none"]

\* An exception as the caller sees it: its type, and the workflow step it
\* names.  No handler of the graph wraps an exception, so the step is
\* always "none".
Exc(type) == [type |-> type, step |-> "none"]

RECURSIVE Sum(_)
Sum(s) == IF s = <<>> THEN 0 ELSE Head(s) + Sum(Tail(s))

\* utils.length_function: the sum of the documents' token counts.
length_function(documents) == Sum(documents)


\* A splitter that tests the group before it adds the document instead of
\* after: a group is closed only once it is already over token_max.
RECURSIVE SplitFromLate(_, _, _, _, _)
SplitFromLate(docs, i, sub, acc, token_max) ==
    IF i > Len(docs)
    THEN [ok |-> TRUE, lists |-> Append(acc, sub)]
    ELSE IF length_function(sub) > token_max
         THEN SplitFromLate(docs, i + 1, <<docs[i]>>, Append(acc, sub), token_max)
         ELSE SplitFromLate(docs, i + 1, Append(sub, docs[i]), acc, token_max)

split_list_of_docs_late(docs, token_max) == SplitFromLate(docs, 1, <<>>, <<>>, token_max)

\* A splitter that also closes a group when it reaches token_max exactly.
RECURSIVE SplitFromStrict(_, _, _, _, _)
SplitFromStrict(docs, i, sub, acc, token_max) ==
    IF i > Len(docs)
    THEN [ok |-> TRUE, lists |-> Append(acc, sub)]
    ELSE LET sub2 == Append(sub, docs[i])
         IN  IF length_function(sub2) >= token_max
             THEN IF Len(sub2) = 1
                  THEN [ok |-> FALSE, lists |-> <<>>]
                  ELSE SplitFromStrict(docs, i + 1, <<docs[i]>>, Append(acc, sub), token_max)
             ELSE SplitFromStrict(docs, i + 1, sub2, acc, token_max)

split_list_of_docs_strict(docs, token_max) == SplitFromStrict(docs, 1, <<>>, <<>>, token_max)

\* langchain's split_list_of_docs, as _collapse_summaries calls it: add each
\* document to the current group; when the group's length passes token_max,
\* close the group without the document and start the next group with it.
\* It raises ValueError when the group holds that document alone, which is
\* only possible for the first document of the list.
RECURSIVE SplitFrom(_, _, _, _, _)
SplitFrom(docs, i, sub, acc, token_max) ==
    IF i > Len(docs)
    THEN [ok |-> TRUE, lists |-> Append(acc, sub)]
    ELSE LET sub2 == Append(sub, docs[i])
         IN  IF length_function(sub2) > token_max
             THEN IF Len(sub2) = 1
                  THEN [ok |-> FALSE, lists |-> <<>>]
                  ELSE SplitFrom(docs, i + 1, <<docs[i]>>, Append(acc, sub), token_max)
             ELSE SplitFrom(docs, i + 1, sub2, acc, token_max)

split_list_of_docs(docs, token_max) == SplitFrom(docs, 1, <<>>, <<>>, token_max)

\* A decision with the comparison turned round.
should_collapse_inverted(docs) ==
    IF length_function(docs) < TOKEN_MAX
    THEN "collapse_summaries"
    ELSE "generate_final_summary"

\* A decision that also collapses a list of exactly TOKEN_MAX tokens.
should_collapse_at_ceiling(docs) ==
    IF length_function(docs) >= TOKEN_MAX
    THEN "collapse_summaries"
    ELSE "generate_final_summary"

\* _should_collapse: the conditional edge after collect_summaries and after
\* collapse_summaries.
should_collapse(docs) ==
    IF length_function(docs) > TOKEN_MAX
    THEN "collapse_summaries"
    ELSE "generate_final_summary"

\* A collect_summaries that runs as soon as one generate_summary task is done.
fan_out_joined_early == pending # 1..Len(contents)

\* The edge generate_summary -> collect_summaries: collect_summaries runs in
\* the superstep after the one that ran every generate_summary task.
fan_out_joined == pending = {}

\* A reduce step over the collapsed documents.
reduce_argument_collapsed == collapsed_summaries

\* _generate_final_summary's argument to the reduce chain.
reduce_argument == summaries

\* A collapsed_summaries key with the reducer of the summaries key,
\* operator.add: the returned list is appended to the old one.
collapse_update_add(old, new) == old \o new

\* What _collapse_summaries returns for the collapsed_summaries key, which
\* has no reducer: the returned list replaces the old one.
collapse_update(old, new) == new

TypeOK ==
    /\ pc \in {"main", "construct", "build", "constructed", "generate_summary",
               "collapse_summaries", "collapsing", "generate_final_summary",
               "reducing", "save", "exit"}
    /\ file_path \in {"readable", "unreadable"}
    /\ graph_built \in BOOLEAN
    /\ pending \subseteq 1..Len(contents)
    /\ supersteps \in 0..RecursionLimit
    /\ exit_status \in {-1, 0, 1}
    /\ outputs \in [file : {"absent", "partial", "written"},
                    stdout : {"none", "output path"},
                    stderr : {"none", "error"}]

Init ==
    /\ pc = "main"
    /\ file_path \in {"readable", "unreadable"}
    /\ graph_built = FALSE
    /\ contents = <<>>
    /\ pending = {}
    /\ summaries = <<>>
    /\ collapsed_summaries = <<>>
    /\ doc_lists = <<>>
    /\ results = <<>>
    /\ final_summary = "none"
    /\ supersteps = 0
    /\ calls = [fanout |-> 0, passes |-> 0, reduce |-> 0, failed |-> "none",
                 reduce_answer |-> "none"]
    /\ reduce_input = <<>>
    /\ raised = NoError
    /\ exit_status = -1
    /\ outputs = [file |-> "absent", stdout |-> "none", stderr |-> "none"]

\* A handler that prints the error and returns, so that the interpreter
\* ends with status 0.
RaiseWith_returns(e, file) ==
    /\ pc' = "exit"
    /\ raised' = e
    /\ exit_status' = 0
    /\ pending' = {}
    /\ outputs' = [outputs EXCEPT !.file = file, !.stderr = "error"]

\* An exception leaves every frame up to main()'s handler, which prints it
\* to stderr and exits with status 1.  Outstanding tasks are cancelled.
\* file is the state the raising call left the output file in.
RaiseWith(e, file) ==
    /\ pc' = "exit"
    /\ raised' = e
    /\ exit_status' = 1
    /\ pending' = {}
    /\ outputs' = [outputs EXCEPT !.file = file, !.stderr = "error"]

Raise(e) == RaiseWith(e, outputs.file)

\* main: the two prompt configurations are read from their JSON files.
load_prompts ==
    /\ pc = "main"
    /\ \E ok \in BOOLEAN :
         IF ok
         THEN /\ pc' = "construct"
              /\ UNCHANGED <<raised, exit_status, pending, outputs>>
         ELSE Raise(Exc("PromptFileError"))
    /\ UNCHANGED <<file_path, graph_built, contents, summaries, collapsed_summaries,
                   doc_lists, results, final_summary, supersteps, calls, reduce_input>>

\* A loader that answers an unreadable path with no documents.
load_documents_lenient ==
    /\ pc = "construct"
    /\ \E n \in 0..(IF file_path = "unreadable" THEN 0 ELSE MaxChunks) :
         /\ contents' = [i \in 1..n |-> i]
         /\ pc' = "build"
    /\ UNCHANGED <<file_path, graph_built, pending, summaries, collapsed_summaries,
                   doc_lists, results, final_summary, supersteps, calls, reduce_input,
                   raised, exit_status, outputs>>

\* FlashcardGenerator.__init__, up to self.documents: get_llm(), then
\* _load_documents -> DocumentLoader.load_and_split.
load_documents ==
    /\ pc = "construct"
    /\ IF file_path = "unreadable"
       THEN /\ Raise(Exc("LoadError"))
            /\ UNCHANGED contents
       ELSE \E parsed \in BOOLEAN :
              IF parsed
              THEN \E n \in 0..MaxChunks :
                     /\ contents' = [i \in 1..n |-> i]
                     /\ pc' = "build"
                     /\ UNCHANGED <<raised, exit_status, pending, outputs>>
              ELSE /\ Raise(Exc("FormatError"))
                   /\ UNCHANGED contents
    /\ UNCHANGED <<file_path, graph_built, summaries, collapsed_summaries,
                   doc_lists, results, final_summary, supersteps, calls, reduce_input>>

\* FlashcardGenerator.__init__, the rest: the prompt templates (which need
\* both fields of each configuration), the chains, the graph and its build().
build_graph ==
    /\ pc = "build"
    /\ \E ok \in BOOLEAN :
         IF ok
         THEN /\ graph_built' = TRUE
              /\ pc' = "constructed"
              /\ UNCHANGED <<raised, exit_status, pending, outputs>>
         ELSE /\ Raise(Exc("PromptConfigError"))
              /\ UNCHANGED graph_built
    /\ UNCHANGED <<file_path, contents, summaries, collapsed_summaries,
                   doc_lists, results, final_summary, supersteps, calls, reduce_input>>

\* A conditional edge from START that, with no content to send, routes to
\* the reduce node.
map_summaries_to_reduce ==
    /\ pc = "constructed"
    /\ IF contents = <<>>
       THEN /\ pc' = "generate_final_summary"
            /\ UNCHANGED <<pending, calls>>
       ELSE /\ pending' = 1..Len(contents)
            /\ calls' = [calls EXCEPT !.fanout = Len(contents)]
            /\ pc' = "generate_summary"
    /\ supersteps' = supersteps + 1
    /\ UNCHANGED <<file_path, graph_built, contents, summaries, collapsed_summaries,
                   doc_lists, results, final_summary, reduce_input,
                   raised, exit_status, outputs>>

\* create_flashcards -> get_result -> app.ainvoke: the conditional edge
\* from START, _map_summaries, sends one generate_summary task per content;
\* the tasks run together in the first superstep, each awaiting the map
\* chain.  With no content there is no task: the graph ends at once and
\* get_result's result["final_summary"] raises KeyError.
map_summaries ==
    /\ pc = "constructed"
    /\ IF contents = <<>>
       THEN /\ Raise(Exc("KeyError"))
            /\ UNCHANGED <<supersteps, calls>>
       ELSE /\ pending' = 1..Len(contents)
            /\ calls' = [calls EXCEPT !.fanout = Len(contents)]
            /\ supersteps' = supersteps + 1
            /\ pc' = "generate_summary"
            /\ UNCHANGED <<raised, exit_status, outputs>>
    /\ UNCHANGED <<file_path, graph_built, contents, summaries, collapsed_summaries,
                   doc_lists, results, final_summary, reduce_input>>

\* A summaries key without its reducer: each task's summary replaces the
\* list instead of being appended to it.
generate_summary_overwrites(i, t) ==
    /\ pc = "generate_summary"
    /\ i \in pending
    /\ summaries' = <<t>>
    /\ pending' = pending \ {i}
    /\ UNCHANGED <<pc, file_path, graph_built, contents, collapsed_summaries,
                   doc_lists, results, final_summary, supersteps, calls,
                   reduce_input, raised, exit_status, outputs>>

\* _generate_summary for chunk i: the map chain answers with a summary of t
\* tokens, which the reducer operator.add appends to summaries.
generate_summary(i, t) ==
    /\ pc = "generate_summary"
    /\ i \in pending
    /\ summaries' = Append(summaries, t)
    /\ pending' = pending \ {i}
    /\ UNCHANGED <<pc, file_path, graph_built, contents, collapsed_summaries,
                   doc_lists, results, final_summary, supersteps, calls,
                   reduce_input, raised, exit_status, outputs>>

\* A _generate_summary that catches the map chain's exception and returns no
\* summary for its chunk.
generate_summary_swallows(i) ==
    /\ pc = "generate_summary"
    /\ i \in pending
    /\ calls' = [calls EXCEPT !.failed = "generate_summary"]
    /\ pending' = pending \ {i}
    /\ UNCHANGED <<pc, file_path, graph_built, contents, summaries, collapsed_summaries,
                   doc_lists, results, final_summary, supersteps, reduce_input,
                   raised, exit_status, outputs>>

\* _generate_summary for chunk i: the map chain raises.  Nothing catches it
\* between the chain and main().
generate_summary_fails(i) ==
    /\ pc = "generate_summary"
    /\ i \in pending
    /\ calls' = [calls EXCEPT !.failed = "generate_summary"]
    /\ Raise(Exc("ModelCallError"))
    /\ UNCHANGED <<file_path, graph_built, contents, summaries, collapsed_summaries,
                   doc_lists, results, final_summary, supersteps, reduce_input>>

\* _collect_summaries, then the conditional edge _should_collapse on the
\* updated state.
collect_summaries ==
    /\ pc = "generate_summary"
    /\ fan_out_joined
    /\ collapsed_summaries' = summaries
    /\ supersteps' = supersteps + 1
    /\ pc' = should_collapse(collapsed_summaries')
    /\ UNCHANGED <<file_path, graph_built, contents, pending, summaries, doc_lists,
                   results, final_summary, calls, reduce_input, raised, exit_status, outputs>>

\* The graph has run RecursionLimit supersteps and a node is still due:
\* ainvoke raises GraphRecursionError.
recursion_limit_reached ==
    /\ pc \in {"collapse_summaries", "generate_final_summary"}
    /\ supersteps >= RecursionLimit
    /\ Raise(Exc("GraphRecursionError"))
    /\ UNCHANGED <<file_path, graph_built, contents, summaries, collapsed_summaries,
                   doc_lists, results, final_summary, supersteps, calls, reduce_input>>

\* _collapse_summaries, up to its first await: split the documents into
\* groups (split_list_of_docs may raise) and call the map chain on the
\* first group.
collapse_summaries_begin ==
    /\ pc = "collapse_summaries"
    /\ supersteps < RecursionLimit
    /\ supersteps' = supersteps + 1
    /\ calls' = [calls EXCEPT !.passes = @ + 1]
    /\ LET split == split_list_of_docs(collapsed_summaries, TOKEN_MAX)
       IN  IF split.ok
           THEN /\ doc_lists' = split.lists
                /\ results' = <<>>
                /\ pc' = "collapsing"
                /\ UNCHANGED <<raised, exit_status, pending, outputs>>
           ELSE /\ Raise(Exc("ValueError"))
                /\ UNCHANGED <<doc_lists, results>>
    /\ UNCHANGED <<file_path, graph_built, contents, summaries, collapsed_summaries,
                   final_summary, reduce_input>>

\* A node that returns from inside its loop, after the first group's answer.
collapse_summaries_group_early(t) ==
    /\ pc = "collapsing"
    /\ collapsed_summaries' = collapse_update(collapsed_summaries, Append(results, t))
    /\ results' = <<>>
    /\ doc_lists' = <<>>
    /\ pc' = should_collapse(collapsed_summaries')
    /\ UNCHANGED <<file_path, graph_built, contents, pending, summaries, final_summary,
                   supersteps, calls, reduce_input, raised, exit_status, outputs>>

\* _collapse_summaries, one turn of its loop: acollapse_docs returns the map
\* chain's answer for the group, a document of t tokens.  After the last
\* group the node returns, collapsed_summaries is updated and the
\* conditional edge _should_collapse runs on the updated state.
collapse_summaries_group(t) ==
    /\ pc = "collapsing"
    /\ LET done == Append(results, t)
       IN  IF Len(done) < Len(doc_lists)
           THEN /\ results' = done
                /\ UNCHANGED <<pc, collapsed_summaries, doc_lists>>
           ELSE /\ collapsed_summaries' = collapse_update(collapsed_summaries, done)
                /\ results' = <<>>
                /\ doc_lists' = <<>>
                /\ pc' = should_collapse(collapsed_summaries')
    /\ UNCHANGED <<file_path, graph_built, contents, pending, summaries, final_summary,
                   supersteps, calls, reduce_input, raised, exit_status, outputs>>

\* _collapse_summaries: the map chain raises for the current group.
collapse_summaries_fails ==
    /\ pc = "collapsing"
    /\ calls' = [calls EXCEPT !.failed = "collapse_summaries"]
    /\ Raise(Exc("ModelCallError"))
    /\ UNCHANGED <<file_path, graph_built, contents, summaries, collapsed_summaries,
                   doc_lists, results, final_summary, supersteps, reduce_input>>

\* _generate_final_summary, up to its await: call the reduce chain.
generate_final_summary_begin ==
    /\ pc = "generate_final_summary"
    /\ supersteps < RecursionLimit
    /\ supersteps' = supersteps + 1
    /\ calls' = [calls EXCEPT !.reduce = @ + 1]
    /\ reduce_input' = reduce_argument
    /\ pc' = "reducing"
    /\ UNCHANGED <<file_path, graph_built, contents, pending, summaries,
                   collapsed_summaries, doc_lists, results, final_summary,
                   raised, exit_status, outputs>>

\* A reduce chain that hands an answer that is not JSON on as raw text.
generate_final_summary_returns_raw ==
    /\ pc = "reducing"
    /\ \E json \in BOOLEAN :
         /\ calls' = [calls EXCEPT !.reduce_answer = IF json THEN "json" ELSE "not_json"]
         /\ final_summary' = IF json THEN "flashcards" ELSE "raw text"
         /\ pc' = "save"
    /\ UNCHANGED <<file_path, graph_built, contents, pending, summaries,
                   collapsed_summaries, doc_lists, results, supersteps, reduce_input,
                   raised, exit_status, outputs>>

\* The reduce chain answers.  Its JsonOutputParser raises when the answer is
\* not JSON; otherwise final_summary is set, the graph ends and get_result
\* returns it to create_flashcards and main.
generate_final_summary_returns ==
    /\ pc = "reducing"
    /\ \E json \in BOOLEAN :
         IF json
         THEN /\ calls' = [calls EXCEPT !.reduce_answer = "json"]
              /\ final_summary' = "flashcards"
              /\ pc' = "save"
              /\ UNCHANGED <<raised, exit_status, pending, outputs>>
         ELSE /\ calls' = [calls EXCEPT !.reduce_answer = "not_json"]
              /\ Raise(Exc("OutputParserException"))
              /\ UNCHANGED final_summary
    /\ UNCHANGED <<file_path, graph_built, contents, summaries, collapsed_summaries,
                   doc_lists, results, supersteps, reduce_input>>

\* The reduce chain's model call raises.
generate_final_summary_fails ==
    /\ pc = "reducing"
    /\ calls' = [calls EXCEPT !.failed = "generate_final_summary"]
    /\ Raise(Exc("ModelCallError"))
    /\ UNCHANGED <<file_path, graph_built, contents, summaries, collapsed_summaries,
                   doc_lists, results, final_summary, supersteps, reduce_input>>

\* main: save_json_file, then print the output path; the coroutine returns
\* and the process exits with status 0.  save_json_file raises either in
\* open(), with no file written, or in json.dump, after open() has created
\* or truncated the file.
save_output ==
    /\ pc = "save"
    /\ \E ok \in BOOLEAN :
         IF ok
         THEN /\ pc' = "exit"
              /\ exit_status' = 0
              /\ outputs' = [outputs EXCEPT !.file = "written", !.stdout = "output path"]
              /\ UNCHANGED <<raised, pending>>
         ELSE \E file \in {"absent", "partial"} : RaiseWith(Exc("IOError"), file)
    /\ UNCHANGED <<file_path, graph_built, contents, summaries, collapsed_summaries,
                   doc_lists, results, final_summary, supersteps, calls, reduce_input>>

Next ==
    \/ load_prompts
    \/ load_documents
    \/ build_graph
    \/ map_summaries
    \/ \E i \in 1..MaxChunks, t \in TokenLens : generate_summary(i, t)
    \/ \E i \in 1..MaxChunks : generate_summary_fails(i)
    \/ collect_summaries
    \/ recursion_limit_reached
    \/ collapse_summaries_begin
    \/ \E t \in TokenLens : collapse_summaries_group(t)
    \/ collapse_summaries_fails
    \/ generate_final_summary_begin
    \/ generate_final_summary_returns
    \/ generate_final_summary_fails
    \/ save_output

Spec == Init /\ [][Next]_vars

(***************************************************************************)
(* One Collapse pass on its own, over longer lists than Spec reaches: the  *)
(* runs start where collect_summaries has just sent a list of up to        *)
(* MaxDocs summaries to Collapse, and end with the pass.                   *)
(***************************************************************************)
MaxDocs == 5

PassInit ==
    /\ pc = "collapse_summaries"
    /\ file_path = "readable"
    /\ graph_built = TRUE
    /\ \E n \in 1..MaxDocs :
         /\ contents = [i \in 1..n |-> i]
         /\ summaries \in [1..n -> TokenLens]
         /\ calls = [fanout |-> n, passes |-> 0, reduce |-> 0, failed |-> "none",
                     reduce_answer |-> "none"]
    /\ should_collapse(summaries) = "collapse_summaries"
    /\ collapsed_summaries = summaries
    /\ pending = {}
    /\ doc_lists = <<>>
    /\ results = <<>>
    /\ final_summary = "none"
    /\ supersteps = 2
    /\ reduce_input = <<>>
    /\ raised = NoError
    /\ exit_status = -1
    /\ outputs = [file |-> "absent", stdout |-> "none", stderr |-> "none"]

PassNext ==
    \/ calls.passes = 0 /\ collapse_summaries_begin
    \/ \E t \in TokenLens : collapse_summaries_group(t)
    \/ collapse_summaries_fails

PassSpec == PassInit /\ [][PassNext]_vars

(***************************************************************************)
(* The fan-out under a deterministic map chain (get_llm sets temperature   *)
(* 0): the summary is a function of the chunk's text.  The runs start      *)
(* from a constructed generator whose chunks carry any of three texts,     *)
(* equal texts included, and end with collect_summaries.                   *)
(***************************************************************************)
SummaryOf(text) ==
    CASE text = 1 -> 40000
      [] text = 2 -> 60000
      [] text = 3 -> TOKEN_MAX + 1

ChunkTexts == {1, 2, 3}

DetInit ==
    /\ pc = "constructed"
    /\ file_path = "readable"
    /\ graph_built = TRUE
    /\ \E n \in 1..MaxChunks : contents \in [1..n -> ChunkTexts]
    /\ pending = {}
    /\ summaries = <<>>
    /\ collapsed_summaries = <<>>
    /\ doc_lists = <<>>
    /\ results = <<>>
    /\ final_summary = "none"
    /\ supersteps = 0
    /\ calls = [fanout |-> 0, passes |-> 0, reduce |-> 0, failed |-> "none",
                reduce_answer |-> "none"]
    /\ reduce_input = <<>>
    /\ raised = NoError
    /\ exit_status = -1
    /\ outputs = [file |-> "absent", stdout |-> "none", stderr |-> "none"]

DetNext ==
    \/ map_summaries
    \/ \E i \in DOMAIN contents : generate_summary(i, SummaryOf(contents[i]))
    \/ \E i \in DOMAIN contents : generate_summary_fails(i)
    \/ collect_summaries

DetSpec == DetInit /\ [][DetNext]_vars

(***************************************************************************)
(* The claims.                                                             *)
(***************************************************************************)

\* collect_summaries has run: it is the second superstep of every run.
Collected == supersteps >= 2

\* The current Collapse pass, or the one just completed, is over.
AfterDecide == pc \in {"collapse_summaries", "generate_final_summary"}

Groups == 1..Len(doc_lists)

\* C1: a run over a non-empty chunk list whose summaries each fit under the
\* ceiling, and in which no model call fails, ends only after it has
\* reached Reduce (whatever token counts the map chain returned).
C1_RunReachesReduce ==
    ( /\ pc = "exit"
      /\ Collected
      /\ \A k \in 1..Len(summaries) : summaries[k] <= TOKEN_MAX
      /\ calls.failed = "none" )
    => calls.reduce = 1

\* C2: when Reduce is invoked, the documents passed to the reduce chain hold
\* no more than TOKEN_MAX tokens in total.
C2_ReduceInputWithinCeiling ==
    calls.reduce >= 1 => length_function(reduce_input) <= TOKEN_MAX

\* C3: the fan-out issues exactly one map call per chunk, and Collect and the
\* first Decide run only when none of them is outstanding and summaries
\* holds one summary per chunk.
C3_FanOutJoinBarrier ==
    /\ calls.fanout \in {0, Len(contents)}
    /\ pc = "generate_summary" =>
         /\ calls.fanout = Len(contents)
         /\ Len(summaries) + Cardinality(pending) = Len(contents)
    /\ Collected =>
         /\ Len(contents) >= 1
         /\ calls.fanout = Len(contents)
         /\ pending = {}
         /\ Len(summaries) = Len(contents)
         /\ Len(collapsed_summaries) >= 1

C3_Witness ==
    /\ Collected
    /\ Len(contents) >= 2
    /\ summaries[1] # summaries[2]

\* C4: Reduce is invoked at most once, exactly once in a run that returns a
\* result, and on the flat per-chunk summaries of the fan-out, which no
\* Collapse pass changes.
C4_ReduceInputIsFlat ==
    /\ calls.reduce <= 1
    /\ final_summary # "none" => calls.reduce = 1
    /\ calls.reduce = 1 =>
         /\ reduce_input = summaries
         /\ Len(reduce_input) = Len(contents)

C4_SummariesFrozen == Collected => summaries' = summaries

C5_NoOverfullGroupOfSeveral ==
    \A g \in Groups :
        Len(doc_lists[g]) >= 2 => length_function(doc_lists[g]) <= TOKEN_MAX

C5_Witness ==
    /\ pc = "collapsing"
    /\ \E g \in Groups :
         /\ Len(doc_lists[g]) >= 2
         /\ g < Len(doc_lists)

\* C6: every group of a Collapse pass, a group of one document included,
\* holds no more than the ceiling's worth of tokens.
C6_EveryGroupWithinCeiling ==
    \A g \in Groups : length_function(doc_lists[g]) <= TOKEN_MAX

\* C7: a Collapse pass that completes leaves one document per group: never
\* more documents than before, and fewer when a group had two or more.
C7_PassCompletes == pc = "collapsing" /\ AfterDecide'

C7_OneDocumentPerGroup ==
    C7_PassCompletes =>
        /\ Len(collapsed_summaries') = Len(doc_lists)
        /\ Len(collapsed_summaries') <= Len(collapsed_summaries)
        /\ (\E g \in Groups : Len(doc_lists[g]) >= 2)
               => Len(collapsed_summaries') < Len(collapsed_summaries)

C7_PassLeavesOneDocPerGroup == [][C7_OneDocumentPerGroup]_vars

C7_Witness ==
    /\ AfterDecide
    /\ calls.passes = 1
    /\ Len(collapsed_summaries) < Len(summaries)

\* C8: Decide sends the run to Collapse exactly when the intermediate
\* documents total more than the ceiling, and to Reduce otherwise, a total
\* equal to the ceiling included; after a Decide for Reduce there is no
\* further Collapse pass, and Reduce is not entered over the ceiling.
C8_RoutedByCeiling ==
    /\ (Collected /\ pc # "exit") => pc \in {"collapse_summaries", "collapsing",
                                             "generate_final_summary", "reducing", "save"}
    /\ pc \in {"collapse_summaries", "collapsing"}
           => length_function(collapsed_summaries) > TOKEN_MAX
    /\ pc \in {"generate_final_summary", "reducing", "save"}
           => length_function(collapsed_summaries) <= TOKEN_MAX
    /\ calls.reduce >= 1 => length_function(collapsed_summaries) <= TOKEN_MAX

C8_NoPassAfterFit ==
    pc = "generate_final_summary" =>
        /\ pc' \in {"reducing", "exit"}
        /\ calls'.passes = calls.passes
        /\ collapsed_summaries' = collapsed_summaries

C8_DecideRoutesByCeiling == [](C8_RoutedByCeiling) /\ [][C8_NoPassAfterFit]_vars

C8_Witness ==
    /\ pc = "reducing"
    /\ calls.passes >= 1
    /\ length_function(collapsed_summaries) = TOKEN_MAX

\* C9, as stated: a model-call failure in the fan-out or in a Collapse pass
\* ends the run with no Reduce and no result, and the exception that
\* reaches the caller names the step that failed.
C9_FailureNamesItsStep ==
    calls.failed \in {"generate_summary", "collapse_summaries"} =>
        /\ pc = "exit"
        /\ exit_status = 1
        /\ calls.reduce = 0
        /\ final_summary = "none"
        /\ raised.step = calls.failed

\* C9, amended: a model-call failure in the fan-out or in a Collapse pass
\* ends the run with no Reduce and no result, and the model call's own
\* exception reaches the caller as it was raised, naming no step.
C9_FailureAbortsRun ==
    calls.failed \in {"generate_summary", "collapse_summaries"} =>
        /\ pc = "exit"
        /\ exit_status = 1
        /\ pending = {}
        /\ calls.reduce = 0
        /\ final_summary = "none"
        /\ raised = Exc("ModelCallError")

C9_Witness ==
    /\ calls.failed = "collapse_summaries"
    /\ calls.passes >= 2
    /\ Len(results) >= 1

C11_ParseFailureEndsRun ==
    calls.reduce_answer = "not_json" =>
        /\ pc = "exit"
        /\ exit_status = 1
        /\ raised = Exc("OutputParserException")
        /\ final_summary = "none"
        /\ outputs.file = "absent"
        /\ calls.reduce = 1

C11_ChunksFrozen == graph_built => contents' = contents

C11_ParseFailureLeavesChunks ==
    [](C11_ParseFailureEndsRun) /\ [][C11_ChunksFrozen]_vars

C11_Witness ==
    /\ calls.reduce_answer = "not_json"
    /\ calls.passes >= 1
    /\ Len(contents) >= 2

\* C12: a run over one chunk whose summary fits under the ceiling issues one
\* map call, holds one summary, begins no Collapse pass, and goes from the
\* first Decide to one Reduce call.
C12_SingleChunkSkipsCollapse ==
    ( /\ Len(contents) = 1
      /\ Collected
      /\ summaries[1] <= TOKEN_MAX )
    => /\ calls.fanout = 1
       /\ Len(summaries) = 1
       /\ collapsed_summaries = summaries
       /\ calls.passes = 0
       /\ supersteps \in {2, 3}
       /\ pc \in {"generate_final_summary", "reducing", "save", "exit"}
       /\ calls.reduce = (IF pc = "generate_final_summary" THEN 0 ELSE 1)

C12_Witness ==
    /\ Len(contents) = 1
    /\ pc = "save"
    /\ calls.passes = 0
    /\ calls.reduce = 1

\* Any two neighbours of the list fit together under the ceiling.
AdjacentFit(docs) ==
    \A k \in 1..(Len(docs) - 1) : docs[k] + docs[k + 1] <= TOKEN_MAX

\* C13: for two or more documents that total more than the ceiling while
\* any two neighbours fit under it, the first Collapse pass forms, and
\* leaves, fewer documents than it was given.
C13_FirstPassShrinks ==
    ( /\ Len(summaries) >= 2
      /\ length_function(summaries) > TOKEN_MAX
      /\ AdjacentFit(summaries)
      /\ calls.passes = 1 )
    => /\ raised.type # "ValueError"
       /\ pc = "collapsing" => Len(doc_lists) < Len(summaries)
       /\ AfterDecide => Len(collapsed_summaries) < Len(summaries)

C13_Witness ==
    /\ AfterDecide
    /\ calls.passes = 1
    /\ Len(summaries) = 5
    /\ AdjacentFit(summaries)
    /\ Len(collapsed_summaries) = 3

\* The summaries of the chunks, in chunk order.
Answers == [i \in DOMAIN contents |-> SummaryOf(contents[i])]

CountOf(s, t) == Cardinality({k \in DOMAIN s : s[k] = t})

SameMultiset(a, b) ==
    /\ Len(a) = Len(b)
    /\ \A t \in TokenLens : CountOf(a, t) = CountOf(b, t)

\* C14: under a deterministic map chain, whatever the order in which the
\* map calls complete, the summaries at Collect are, as a multiset, the
\* chunks' summaries, and the first Decide is the one made on them.
C14_AccumulationIgnoresOrder ==
    /\ pc = "generate_summary" =>
         \A t \in TokenLens :
             CountOf(summaries, t)
                 = Cardinality({i \in DOMAIN contents \ pending : Answers[i] = t})
    /\ Collected =>
         /\ SameMultiset(summaries, Answers)
         /\ SameMultiset(collapsed_summaries, Answers)
         /\ pc = should_collapse(Answers)

C14_Witness ==
    /\ Collected
    /\ Len(contents) = 3
    /\ summaries[1] = Answers[3]
    /\ summaries[3] = Answers[2]
    /\ Cardinality({Answers[1], Answers[2], Answers[3]}) = 3

\* C15: the command-line run ends with status 0 only after prompts,
\* documents, generation and save all succeeded, with the output path
\* printed; after a failure it has printed an error to stderr and ends with
\* a non-zero status, and a failure before the save step leaves the output
\* file unwritten.
C15_ExitStatusTellsOutcome ==
    /\ pc = "exit" => exit_status \in {0, 1}
    /\ pc # "exit" =>
         /\ exit_status = -1
         /\ outputs = [file |-> "absent", stdout |-> "none", stderr |-> "none"]
    /\ exit_status = 0 =>
         /\ pc = "exit"
         /\ raised = NoError
         /\ graph_built
         /\ contents # <<>>
         /\ calls.reduce = 1
         /\ final_summary # "none"
         /\ outputs = [file |-> "written", stdout |-> "output path",
                       stderr |-> "none"]
    /\ raised # NoError =>
         /\ pc = "exit"
         /\ exit_status = 1
         /\ outputs.stderr = "error"
         /\ outputs.stdout = "none"
         /\ outputs.file # "written"
         /\ raised.type # "IOError" => outputs.file = "absent"

C15_Witness ==
    /\ pc = "exit"
    /\ exit_status = 0
    /\ outputs.file = "written"
    /\ outputs.stdout = "output path"

\* C16: a Collapse pass completes before the next Decide.  While a group's
\* map call is outstanding the pre-pass list and its groups stand and no
\* Decide has been made; the step that makes the Decide is the answer to the
\* last group's call, and it replaces the list by the answers, one per
\* group, in group order.
C16_CallOutstanding ==
    pc = "collapsing" =>
        /\ doc_lists # <<>>
        /\ Len(results) < Len(doc_lists)
        /\ split_list_of_docs(collapsed_summaries, TOKEN_MAX)
               = [ok |-> TRUE, lists |-> doc_lists]

C16_NoCallOutstanding == AfterDecide => (doc_lists = <<>> /\ results = <<>>)

C16_DecideAfterLastGroup ==
    pc = "collapsing" =>
        \/ /\ pc' = "collapsing"
           /\ collapsed_summaries' = collapsed_summaries
           /\ doc_lists' = doc_lists
           /\ Len(results') = Len(results) + 1
           /\ SubSeq(results', 1, Len(results)) = results
        \/ /\ AfterDecide'
           /\ Len(results) + 1 = Len(doc_lists)
           /\ Len(collapsed_summaries') = Len(doc_lists)
           /\ SubSeq(collapsed_summaries', 1, Len(results)) = results
           /\ pc' = should_collapse(collapsed_summaries')
        \/ /\ pc' = "exit"
           /\ collapsed_summaries' = collapsed_summaries

C16_PassCompletesBeforeDecide ==
    /\ [](C16_CallOutstanding /\ C16_NoCallOutstanding)
    /\ [][C16_DecideAfterLastGroup]_vars

C16_Witness ==
    /\ AfterDecide
    /\ calls.passes = 1
    /\ Len(summaries) = 3
    /\ collapsed_summaries = <<40000, 60000>>

\* C17: with an empty chunk list no map call is issued, none of Collect,
\* Decide, Collapse and Reduce is entered, and get_result fails for want of
\* a final summary instead of returning a result.
C17_EmptyChunkListFails ==
    contents = <<>> =>
        /\ pc \in {"main", "construct", "build", "constructed", "exit"}
        /\ pending = {}
        /\ calls = [fanout |-> 0, passes |-> 0, reduce |-> 0, failed |-> "none",
                    reduce_answer |-> "none"]
        /\ supersteps = 0
        /\ summaries = <<>>
        /\ collapsed_summaries = <<>>
        /\ doc_lists = <<>>
        /\ reduce_input = <<>>
        /\ final_summary = "none"
        /\ (graph_built /\ pc = "exit") =>
               /\ raised = Exc("KeyError")
               /\ exit_status = 1
               /\ outputs.file = "absent"

C17_Witness ==
    /\ graph_built
    /\ contents = <<>>
    /\ pc = "exit"
    /\ raised.type = "KeyError"

====
